---- MODULE Spec2Model ----
(***************************************************************************)
(* Model of src/upload.rs: the Upload context (command-buffer lifecycle),  *)
(* the upload decision logic and the raw CPU-visible memory writer.        *)
(***************************************************************************)
EXTENDS Integers, Sequences, FiniteSets, TLC

\* ------------------------------------------------------------------ bounds
\* u64 arithmetic is modelled on WordBits-bit words (wrap-around at 2^WordBits).
WordBits == 3
\* cap on the command buffers the pool hands out
MaxBufs == 2
\* frame numbers and watermarks range over 0..MaxFrame
MaxFrame == 2
\* cap on the commands recorded into one command buffer
MaxBatch == 2
\* longest payload
MaxLen == 3

Modulus == 2 ^ WordBits
Frames == 0 .. MaxFrame
CBufIds == 1 .. MaxBufs

\* --------------------------------------------------------------- the state
VARIABLES
    debug_assertions,   \* build profile: overflow checks and debug_assert! compiled in
    staging_threshold,  \* Upload.staging_threshold
    family,             \* Upload.family
    pool,               \* Upload.pool: number of command pools created (0 = None)
    cbuf,               \* Upload.cbuf: 0 = None, else the current command buffer
    free,               \* Upload.free: Vec of command buffers
    used,               \* Upload.used: VecDeque of <<command buffer, frame>>
    cbs,                \* the command buffers allocated from the pool: state and commands
    mem,                \* bytes of the CPU-visible device memory holding the target blocks
    devlog,             \* device memory calls made by the last operation, in order
    ret,                \* what the last operation returned
    req,                \* history: the arguments of the last upload call
    batch,              \* history: commands of the successful uploads since the last uploads()
    subframe,           \* history: frame the caller passed when each buffer went in-flight
    lastFrame,          \* history: last frame passed to uploads (-1: none yet), while
                        \*   the frames passed so far were non-decreasing (else -2)
    lastWater,          \* history: the same for the watermarks passed to clear
    peak,               \* history: the largest number of buffers in flight at once so far
    mapped              \* target buffers whose memory map_memory has mapped (the module
                        \*   never calls unmap_memory)

vars == << debug_assertions, staging_threshold, family, pool, cbuf, free, used, cbs,
           mem, devlog, ret, req, batch, subframe, lastFrame, lastWater, peak, mapped >>

ctx == << staging_threshold, family, pool, cbuf, free, used, cbs >>
hist == << subframe, lastFrame, lastWater >>

\* The caller has kept its side so far: frames, and watermarks, non-decreasing.
OrderedFrames == lastFrame # -2
OrderedWatermarks == lastWater # -2
\* The history after one more value v.
Follow(last, v) == IF last # -2 /\ v >= last THEN v ELSE -2

\* ---------------------------------------------------------- small helpers
Range(s) == { s[i] : i \in DOMAIN s }
Last(s) == s[Len(s)]
Front(s) == SubSeq(s, 1, Len(s) - 1)
Ids(u) == [ i \in DOMAIN u |-> u[i][1] ]
NoDup(s) == \A i, j \in DOMAIN s : i # j => s[i] # s[j]
Ordered(u) == \A i, j \in DOMAIN u : i < j => u[i][2] <= u[j][2]

\* ------------------------------------------- the backend's command buffers
\* A command buffer the pool has not handed out yet.
Unallocated == [ state |-> "unallocated", cmds |-> << >> ]
\* RawCommandPool::allocate: a fresh buffer in the initial state.
allocate == [ state |-> "initial", cmds |-> << >> ]
\* RawCommandBuffer::begin(CommandBufferFlags::empty()): starts recording; the
\* pool was created without the reset flag, so begin discards nothing.
begin(cb) == [ cb EXCEPT !.state = "recording" ]
\* RawCommandBuffer::finish
finish(cb) == [ cb EXCEPT !.state = "executable" ]
\* RawCommandBuffer::reset(true): commands discarded, resources released.
reset(cb) == [ state |-> "initial", cmds |-> << >> ]
\* update_buffer / copy_buffer / copy_buffer_to_image: append one command.
record(cb, cmd) == [ cb EXCEPT !.cmds = Append(@, cmd) ]

\* ------------------------------------------------------- return values
None == << >>
Some(x) == << x >>
Ret(op, kind, err, staging, cb) ==
    [ op |-> op, kind |-> kind, err |-> err, staging |-> staging, cb |-> cb ]

\* The Upload struct (with the command buffers it owns) as one value.
Self ==
    [ staging_threshold |-> staging_threshold, family |-> family, pool |-> pool,
      cbuf |-> cbuf, free |-> free, used |-> used, cbs |-> cbs ]
\* The Upload is s now (Init) / after the step (Install).
Constructed(s) ==
    /\ staging_threshold = s.staging_threshold
    /\ family = s.family
    /\ pool = s.pool
    /\ cbuf = s.cbuf
    /\ free = s.free
    /\ used = s.used
    /\ cbs = s.cbs
Install(s) ==
    /\ staging_threshold' = s.staging_threshold
    /\ family' = s.family
    /\ pool' = s.pool
    /\ cbuf' = s.cbuf
    /\ free' = s.free
    /\ used' = s.used
    /\ cbs' = s.cbs

\* Upload::new
new(threshold, fam) ==
    [ staging_threshold |-> threshold, family |-> fam, pool |-> 0, cbuf |-> 0,
      free |-> << >>, used |-> << >>, cbs |-> [ b \in CBufIds |-> Unallocated ] ]

\* ------------------------------------------------ Upload::get_command_buffer
\* The buffer it returns is the cbuf field of the result.
\* Faulty variant: with no current buffer a new one is allocated while the pool has
\* one to give, and the free list is a fallback.
get_command_buffer_prefers_new(s) ==
    IF s.cbuf # 0
    THEN s
    ELSE IF \A b \in CBufIds : s.cbs[b].state # "unallocated"
         THEN [ s EXCEPT !.cbuf = Last(s.free), !.free = Front(s.free),
                         !.cbs[Last(s.free)] = begin(@) ]
         ELSE LET new_id == Cardinality({ b \in CBufIds :
                                            s.cbs[b].state # "unallocated" }) + 1
              IN [ s EXCEPT !.pool = IF @ = 0 THEN 1 ELSE @,
                            !.cbuf = new_id,
                            !.cbs[new_id] = begin(allocate) ]

get_command_buffer(s) ==
    IF s.cbuf # 0
    THEN s
    ELSE IF s.free # << >>
         THEN [ s EXCEPT !.cbuf = Last(s.free), !.free = Front(s.free),
                         !.cbs[Last(s.free)] = begin(@) ]
         ELSE LET new_id == Cardinality({ b \in CBufIds :
                                            s.cbs[b].state # "unallocated" }) + 1
              IN [ s EXCEPT !.pool = IF @ = 0 THEN 1 ELSE @,
                            !.cbuf = new_id,
                            !.cbs[new_id] = begin(allocate) ]

\* ----------------------------------------------------------- Upload::uploads
\* Faulty variant: the current buffer is queued but the slot is not emptied.
uploads_keeps_current(s, frame) ==
    IF s.cbuf # 0
    THEN [ s |-> [ s EXCEPT !.cbs[s.cbuf] = finish(@),
                            !.used = Append(@, << s.cbuf, frame >>) ],
           cb |-> s.cbuf ]
    ELSE [ s |-> s, cb |-> 0 ]

\* Faulty variant: the current buffer is queued without finish being called on it.
uploads_no_finish(s, frame) ==
    IF s.cbuf # 0
    THEN [ s |-> [ s EXCEPT !.cbuf = 0,
                            !.used = Append(@, << s.cbuf, frame >>) ],
           cb |-> s.cbuf ]
    ELSE [ s |-> s, cb |-> 0 ]

\* Faulty variant: the finished buffer is queued at the front of the in-flight queue.
uploads_push_front(s, frame) ==
    IF s.cbuf # 0
    THEN [ s |-> [ s EXCEPT !.cbuf = 0,
                            !.cbs[s.cbuf] = finish(@),
                            !.used = << << s.cbuf, frame >> >> \o @ ],
           cb |-> s.cbuf ]
    ELSE [ s |-> s, cb |-> 0 ]

uploads(s, frame) ==
    IF s.cbuf # 0
    THEN [ s |-> [ s EXCEPT !.cbuf = 0,
                            !.cbs[s.cbuf] = finish(@),
                            !.used = Append(@, << s.cbuf, frame >>) ],
           cb |-> s.cbuf ]
    ELSE [ s |-> s, cb |-> 0 ]

\* ------------------------------------------------------------- Upload::clear
\* Faulty variant: the entry that is not retired yet is put back at the back.
RECURSIVE clear_push_back(_, _)
clear_push_back(s, ongoing) ==
    IF s.used = << >>
    THEN s
    ELSE LET cb == Head(s.used)[1]
             frame == Head(s.used)[2]
         IN IF frame >= ongoing
            THEN [ s EXCEPT !.used = Tail(s.used) \o << << cb, ongoing >> >> ]
            ELSE clear_push_back([ s EXCEPT !.used = Tail(@),
                                            !.cbs[cb] = reset(@),
                                            !.free = Append(@, cb) ], ongoing)

\* Faulty variant: a buffer tagged with the watermark itself is recycled too.
RECURSIVE clear_inclusive(_, _)
clear_inclusive(s, ongoing) ==
    IF s.used = << >>
    THEN s
    ELSE LET cb == Head(s.used)[1]
             frame == Head(s.used)[2]
         IN IF frame > ongoing
            THEN [ s EXCEPT !.used = << << cb, ongoing >> >> \o Tail(s.used) ]
            ELSE clear_inclusive([ s EXCEPT !.used = Tail(@),
                                            !.cbs[cb] = reset(@),
                                            !.free = Append(@, cb) ], ongoing)

\* Faulty variant: a retired buffer goes back to the free list without being reset.
RECURSIVE clear_no_reset(_, _)
clear_no_reset(s, ongoing) ==
    IF s.used = << >>
    THEN s
    ELSE LET cb == Head(s.used)[1]
             frame == Head(s.used)[2]
         IN IF frame >= ongoing
            THEN [ s EXCEPT !.used = << << cb, ongoing >> >> \o Tail(s.used) ]
            ELSE clear_no_reset([ s EXCEPT !.used = Tail(@),
                                           !.free = Append(@, cb) ], ongoing)

\* Faulty variant: the entry that is not retired yet is put back tagged with the frame
\* before the watermark.
RECURSIVE clear_tags_previous(_, _)
clear_tags_previous(s, ongoing) ==
    IF s.used = << >>
    THEN s
    ELSE LET cb == Head(s.used)[1]
             frame == Head(s.used)[2]
         IN IF frame >= ongoing
            THEN [ s EXCEPT !.used = << << cb, ongoing - 1 >> >> \o Tail(s.used) ]
            ELSE clear_tags_previous([ s EXCEPT !.used = Tail(@),
                                                !.cbs[cb] = reset(@),
                                                !.free = Append(@, cb) ], ongoing)

\* Faulty variant: a buffer is retired only when its tag is two frames or more below
\* the watermark.
RECURSIVE clear_one_frame_late(_, _)
clear_one_frame_late(s, ongoing) ==
    IF s.used = << >>
    THEN s
    ELSE LET cb == Head(s.used)[1]
             frame == Head(s.used)[2]
         IN IF frame + 1 >= ongoing
            THEN [ s EXCEPT !.used = << << cb, ongoing >> >> \o Tail(s.used) ]
            ELSE clear_one_frame_late([ s EXCEPT !.used = Tail(@),
                                                 !.cbs[cb] = reset(@),
                                                 !.free = Append(@, cb) ], ongoing)

RECURSIVE clear(_, _)
clear(s, ongoing) ==
    IF s.used = << >>
    THEN s
    ELSE LET cb == Head(s.used)[1]
             frame == Head(s.used)[2]
         IN IF frame >= ongoing
            THEN [ s EXCEPT !.used = << << cb, ongoing >> >> \o Tail(s.used) ]
            ELSE clear([ s EXCEPT !.used = Tail(@),
                                  !.cbs[cb] = reset(@),
                                  !.free = Append(@, cb) ], ongoing)

\* ------------------------------------------------- update_cpu_visible_block
\* One device call of the log.
Call(name, start, end) == [ call |-> name, start |-> start, end |-> end ]

\* slice.copy_from_slice(data) at the mapped pointer: byte i of data lands at
\* address start + i; addresses outside m belong to no modelled block.
copy_from_slice(m, start, data) ==
    [ a \in DOMAIN m |->
        IF start <= a /\ a < start + Len(data) THEN data[a - start + 1] ELSE m[a] ]

\* The calls made once the range is mapped, and the memory they leave.
\* Faulty variant: the range is flushed before the bytes are copied into it.
write_mapped_flush_first(coherent, start, end, data, m) ==
    [ kind |-> "ok", msg |-> "",
      log |-> << Call("map_memory", start, end) >>
              \o (IF coherent THEN << >>
                  ELSE << Call("invalidate_mapped_memory_ranges", start, end),
                          Call("flush_mapped_memory_ranges", start, end) >>)
              \o << Call("copy_from_slice", start, start + Len(data)) >>,
      mem |-> copy_from_slice(m, start, data) ]

write_mapped(coherent, start, end, data, m) ==
    [ kind |-> "ok", msg |-> "",
      log |-> << Call("map_memory", start, end) >>
              \o (IF coherent THEN << >>
                  ELSE << Call("invalidate_mapped_memory_ranges", start, end) >>)
              \o << Call("copy_from_slice", start, start + Len(data)) >>
              \o (IF coherent THEN << >>
                  ELSE << Call("flush_mapped_memory_ranges", start, end) >>),
      mem |-> copy_from_slice(m, start, data) ]

Panicked(msg, log, m) == [ kind |-> "panic", msg |-> msg, log |-> log, mem |-> m ]

\* Faulty variant: the write goes to the start of the block, whatever the offset.
update_cpu_visible_block_at_start(dbg, coherent, block, offset, data, m) ==
    LET s0 == block.start
        start == s0 % Modulus
        e0 == start + Len(data)
        end == e0 % Modulus
        inside == block.start <= start /\ start <= end /\ end <= block.end
    IN IF dbg /\ (s0 >= Modulus \/ e0 >= Modulus)
       THEN { Panicked("attempt to add with overflow", << >>, m) }
       ELSE IF dbg /\ ~(end <= block.end)
       THEN { Panicked("Checked in Upload::upload method", << >>, m) }
       ELSE IF inside
       THEN { write_mapped(coherent, start, end, data, m) }
       ELSE { Panicked("Expect to be mapped", << Call("map_memory", start, end) >>, m),
              write_mapped(coherent, start, end, data, m) }

\* The set of outcomes of one call on memory m. dbg: overflow checks and
\* debug_assert! are compiled in; without them u64 sums wrap. A range that is
\* not inside the block is outside map_memory's contract: the device may refuse
\* it (expect panics) or hand out a pointer, and the copy then runs from it.
update_cpu_visible_block(dbg, coherent, block, offset, data, m) ==
    LET s0 == block.start + offset
        start == s0 % Modulus
        e0 == start + Len(data)
        end == e0 % Modulus
        inside == block.start <= start /\ start <= end /\ end <= block.end
    IN IF dbg /\ (s0 >= Modulus \/ e0 >= Modulus)
       THEN { Panicked("attempt to add with overflow", << >>, m) }
       ELSE IF dbg /\ ~(end <= block.end)
       THEN { Panicked("Checked in Upload::upload method", << >>, m) }
       ELSE IF inside
       THEN { write_mapped(coherent, start, end, data, m) }
       ELSE { Panicked("Expect to be mapped", << Call("map_memory", start, end) >>, m),
              write_mapped(coherent, start, end, data, m) }

\* ------------------------------------------------------ upload outcomes
\* s: the Upload after the call; cmd: the command the call recorded, if any.
Out(s, m, log, kind, err, staging, cmd) ==
    [ s |-> s, mem |-> m, log |-> log, kind |-> kind, err |-> err,
      staging |-> staging, cmd |-> cmd ]

\* What the allocator answers to create_buffer(.., CPU_VISIBLE, size, TRANSFER_SRC):
\* an error, or a buffer bound to a block of at least that size.
StagingBuffer(env, size) ==
    [ size |-> size, coherent |-> env.staging_coherent,
      start |-> env.staging_start, end |-> env.staging_start + size ]

\* The bytes of the block of a staging buffer after the write (unwritten bytes read 0).
StagingBytes(staging, m) ==
    [ i \in 1 .. staging.size |-> m[staging.start + i - 1] ]
FreshMemory(staging) == [ a \in staging.start .. (staging.end - 1) |-> 0 ]

\* The staging buffer as handed to the caller: its size and its contents.
Staged(staging, m) == [ size |-> staging.size, data |-> StagingBytes(staging, m) ]

\* ------------------------------------------ Upload::upload_device_local_buffer
\* Faulty variant: a payload of exactly the threshold is staged.
upload_device_local_buffer_strict(s, env, buffer, offset, data) ==
    IF Len(data) < s.staging_threshold
    THEN LET cmd == [ op |-> "update_buffer", buffer |-> buffer.id,
                      offset |-> offset, data |-> data ]
             s1 == get_command_buffer(s)
         IN { Out([ s1 EXCEPT !.cbs[s1.cbuf] = record(@, cmd) ], env.mem, << >>,
                  "Ok", "", None, Some(cmd)) }
    ELSE IF ~env.alloc_ok
    THEN { Out(s, env.mem, << >>, "Err", "Failed to create staging buffer", None, None) }
    ELSE LET staging == StagingBuffer(env, Len(data))
         IN { IF w.kind = "panic"
              THEN Out(s, env.mem, w.log, "Panic", w.msg, None, None)
              ELSE LET cmd == [ op |-> "copy_buffer", staging |-> Staged(staging, w.mem),
                                buffer |-> buffer.id,
                                src |-> 0, dst |-> offset, size |-> Len(data) ]
                       s1 == get_command_buffer(s)
                   IN Out([ s1 EXCEPT !.cbs[s1.cbuf] = record(@, cmd) ], env.mem, w.log,
                          "Ok", "", Some(Staged(staging, w.mem)), Some(cmd))
              : w \in update_cpu_visible_block(env.dbg, staging.coherent, staging, 0,
                                               data, FreshMemory(staging)) }

upload_device_local_buffer(s, env, buffer, offset, data) ==
    IF Len(data) <= s.staging_threshold
    THEN LET cmd == [ op |-> "update_buffer", buffer |-> buffer.id,
                      offset |-> offset, data |-> data ]
             s1 == get_command_buffer(s)
         IN { Out([ s1 EXCEPT !.cbs[s1.cbuf] = record(@, cmd) ], env.mem, << >>,
                  "Ok", "", None, Some(cmd)) }
    ELSE IF ~env.alloc_ok
    THEN { Out(s, env.mem, << >>, "Err", "Failed to create staging buffer", None, None) }
    ELSE LET staging == StagingBuffer(env, Len(data))
         IN { IF w.kind = "panic"
              THEN Out(s, env.mem, w.log, "Panic", w.msg, None, None)
              ELSE LET cmd == [ op |-> "copy_buffer", staging |-> Staged(staging, w.mem),
                                buffer |-> buffer.id,
                                src |-> 0, dst |-> offset, size |-> Len(data) ]
                       s1 == get_command_buffer(s)
                   IN Out([ s1 EXCEPT !.cbs[s1.cbuf] = record(@, cmd) ], env.mem, w.log,
                          "Ok", "", Some(Staged(staging, w.mem)), Some(cmd))
              : w \in update_cpu_visible_block(env.dbg, staging.coherent, staging, 0,
                                               data, FreshMemory(staging)) }

\* ------------------------------------------------------ Upload::upload_buffer
\* Faulty variant: the command buffer is acquired on entry, before the bounds check
\* and whatever the path.
upload_buffer_acquires_first(s0, env, buffer, offset, data) ==
    LET sum == offset + Len(data)
        s == get_command_buffer(s0)
    IN IF env.dbg /\ sum >= Modulus
       THEN { Out(s, env.mem, << >>, "Panic", "attempt to add with overflow", None, None) }
       ELSE IF buffer.size < sum % Modulus
       THEN { Out(s, env.mem, << >>, "Err", "OutOfBounds", None, None) }
       ELSE IF buffer.visible
       THEN { IF w.kind = "panic"
              THEN Out(s, w.mem, w.log, "Panic", w.msg, None, None)
              ELSE Out(s, w.mem, w.log, "Ok", "", None, None)
              : w \in update_cpu_visible_block(env.dbg, buffer.coherent, buffer, offset,
                                               data, env.mem) }
       ELSE upload_device_local_buffer(s, env, buffer, offset, data)

\* Faulty variant: the bounds are checked after the upload has been carried out.
upload_buffer_late_check(s, env, buffer, offset, data) ==
    LET sum == offset + Len(data)
        done == IF buffer.visible
                THEN { Out(s, w.mem, w.log, "Ok", "", None, None)
                       : w \in update_cpu_visible_block(FALSE, buffer.coherent, buffer,
                                                        offset, data, env.mem) }
                ELSE upload_device_local_buffer(s, env, buffer, offset, data)
    IN IF env.dbg /\ sum >= Modulus
       THEN { Out(s, env.mem, << >>, "Panic", "attempt to add with overflow", None, None) }
       ELSE IF buffer.size < sum % Modulus
       THEN { Out(o.s, o.mem, o.log, "Err", "OutOfBounds", None, o.cmd) : o \in done }
       ELSE done

\* Faulty variant: the bounds check compares the length of the payload alone with the
\* size of the buffer.
upload_buffer_checks_length_only(s, env, buffer, offset, data) ==
    IF buffer.size < Len(data)
    THEN { Out(s, env.mem, << >>, "Err", "OutOfBounds", None, None) }
    ELSE IF buffer.visible
    THEN { IF w.kind = "panic"
           THEN Out(s, w.mem, w.log, "Panic", w.msg, None, None)
           ELSE Out(s, w.mem, w.log, "Ok", "", None, None)
           : w \in update_cpu_visible_block(env.dbg, buffer.coherent, buffer, offset,
                                            data, env.mem) }
    ELSE upload_device_local_buffer(s, env, buffer, offset, data)

upload_buffer(s, env, buffer, offset, data) ==
    LET sum == offset + Len(data)
    IN IF env.dbg /\ sum >= Modulus
       THEN { Out(s, env.mem, << >>, "Panic", "attempt to add with overflow", None, None) }
       ELSE IF buffer.size < sum % Modulus
       THEN { Out(s, env.mem, << >>, "Err", "OutOfBounds", None, None) }
       ELSE IF buffer.visible
       THEN { IF w.kind = "panic"
              THEN Out(s, w.mem, w.log, "Panic", w.msg, None, None)
              ELSE Out(s, w.mem, w.log, "Ok", "", None, None)
              : w \in update_cpu_visible_block(env.dbg, buffer.coherent, buffer, offset,
                                               data, env.mem) }
       ELSE upload_device_local_buffer(s, env, buffer, offset, data)

\* ------------------------------------------------------- Upload::upload_image
\* Faulty variant: a payload within the staging threshold is taken as an inline
\* update: no staging buffer and no image copy.
upload_image_inline_small(s, env, image, data, layout, layers, offset, extent) ==
    IF Len(data) <= s.staging_threshold
    THEN { Out(s, env.mem, << >>, "Ok", "", None, None) }
    ELSE IF ~env.alloc_ok
    THEN { Out(s, env.mem, << >>, "Err", "Failed to create staging buffer", None, None) }
    ELSE LET staging == StagingBuffer(env, Len(data))
         IN { IF w.kind = "panic"
              THEN Out(s, env.mem, w.log, "Panic", w.msg, None, None)
              ELSE LET cmd == [ op |-> "copy_buffer_to_image",
                                staging |-> Staged(staging, w.mem),
                                image |-> image, layout |-> layout,
                                buffer_offset |-> 0, buffer_width |-> 0,
                                buffer_height |-> 0, image_layers |-> layers,
                                image_offset |-> offset, image_extent |-> extent ]
                       s1 == get_command_buffer(s)
                   IN Out([ s1 EXCEPT !.cbs[s1.cbuf] = record(@, cmd) ], env.mem, w.log,
                          "Ok", "", Some(Staged(staging, w.mem)), Some(cmd))
              : w \in update_cpu_visible_block(env.dbg, staging.coherent, staging, 0,
                                               data, FreshMemory(staging)) }

\* Faulty variant: the command buffer is acquired before the staging buffer is
\* created.
upload_image_acquires_first(s0, env, image, data, layout, layers, offset, extent) ==
    LET s == get_command_buffer(s0)
    IN IF ~env.alloc_ok
       THEN { Out(s, env.mem, << >>, "Err", "Failed to create staging buffer", None, None) }
       ELSE LET staging == StagingBuffer(env, Len(data))
            IN { IF w.kind = "panic"
                 THEN Out(s, env.mem, w.log, "Panic", w.msg, None, None)
                 ELSE LET cmd == [ op |-> "copy_buffer_to_image",
                                   staging |-> Staged(staging, w.mem),
                                   image |-> image, layout |-> layout,
                                   buffer_offset |-> 0, buffer_width |-> 0,
                                   buffer_height |-> 0, image_layers |-> layers,
                                   image_offset |-> offset, image_extent |-> extent ]
                      IN Out([ s EXCEPT !.cbs[s.cbuf] = record(@, cmd) ], env.mem, w.log,
                             "Ok", "", Some(Staged(staging, w.mem)), Some(cmd))
                 : w \in update_cpu_visible_block(env.dbg, staging.coherent, staging, 0,
                                                  data, FreshMemory(staging)) }

upload_image(s, env, image, data, layout, layers, offset, extent) ==
    IF ~env.alloc_ok
    THEN { Out(s, env.mem, << >>, "Err", "Failed to create staging buffer", None, None) }
    ELSE LET staging == StagingBuffer(env, Len(data))
         IN { IF w.kind = "panic"
              THEN Out(s, env.mem, w.log, "Panic", w.msg, None, None)
              ELSE LET cmd == [ op |-> "copy_buffer_to_image",
                                staging |-> Staged(staging, w.mem),
                                image |-> image, layout |-> layout,
                                buffer_offset |-> 0, buffer_width |-> 0,
                                buffer_height |-> 0, image_layers |-> layers,
                                image_offset |-> offset, image_extent |-> extent ]
                       s1 == get_command_buffer(s)
                   IN Out([ s1 EXCEPT !.cbs[s1.cbuf] = record(@, cmd) ], env.mem, w.log,
                          "Ok", "", Some(Staged(staging, w.mem)), Some(cmd))
              : w \in update_cpu_visible_block(env.dbg, staging.coherent, staging, 0,
                                               data, FreshMemory(staging)) }

\* ------------------------------------------------------------- the inputs
\* Payload bytes are nonzero; memory starts zeroed, so a written byte shows.
\* The payloads of length n alternate 1 and 2, starting with either.
Payload(n, first) == [ i \in 1 .. n |-> IF i % 2 = 1 THEN first ELSE 3 - first ]
Payloads == { Payload(n, first) : n \in 0 .. MaxLen, first \in { 1, 2 } }

\* Addresses of the device memory that holds the CPU-visible target blocks.
Addrs == 0 .. 2

\* A target buffer: its size, the properties of its memory (CPU_VISIBLE,
\* COHERENT) and the range of its block. The allocator binds a buffer to a
\* block at least as large as the buffer.
Buffer(id, size, visible, coherent, start, end) ==
    [ id |-> id, size |-> size, visible |-> visible, coherent |-> coherent,
      start |-> start, end |-> end ]
DeviceLocalBuffer == Buffer("device_local", 2, FALSE, FALSE, 0, 2)
HostBuffers ==
    { Buffer("host", 2, TRUE, c, st, 3) : c \in BOOLEAN, st \in { 0, 1 } }

\* The image arguments of upload_image, opaque to this module.
ImageArgs ==
    { [ image |-> "image", layout |-> "TransferDstOptimal", layers |-> "color0",
        offset |-> o, extent |-> "extent" ] : o \in { "origin", "corner" } }

\* The device and the allocator as one call sees them: the memory, and the
\* answer to create_buffer (an error, or a staging buffer on a block at
\* staging_start of memory that is coherent or not).
Env(alloc_ok, staging_coherent, staging_start) ==
    [ dbg |-> debug_assertions, mem |-> mem, alloc_ok |-> alloc_ok,
      staging_coherent |-> staging_coherent, staging_start |-> staging_start ]
AllocFails == Env(FALSE, TRUE, 0)
Envs == { AllocFails, Env(TRUE, TRUE, 0), Env(TRUE, FALSE, 1) }

\* The pool can hand out another buffer (the cap that keeps the model finite).
CanAllocate == \E b \in CBufIds : cbs[b].state = "unallocated"
\* get_command_buffer can be served and the current buffer has room.
CanRecord ==
    /\ cbuf # 0 \/ free # << >> \/ CanAllocate
    /\ cbuf # 0 => Len(cbs[cbuf].cmds) < MaxBatch

\* ------------------------------------------------------------ the actions
\* The last call was no upload.
NoRequest == [ op |-> "none" ]

\* The state after Upload::new(threshold, 0) in a build with or without
\* debug assertions.
Constructs(threshold, dbg) ==
    /\ debug_assertions = dbg
    /\ Constructed(new(threshold, 0))
    /\ mem = [ a \in Addrs |-> 0 ]
    /\ devlog = << >>
    /\ ret = Ret("new", "Ok", "", None, 0)
    /\ req = NoRequest
    /\ batch = << >>
    /\ subframe = [ b \in CBufIds |-> -1 ]
    /\ lastFrame = -1
    /\ lastWater = -1
    /\ peak = 0
    /\ mapped = { }

\* The target buffers whose memory the upload call r with outcome o has mapped:
\* map_memory returned a pointer (the call went on to the copy), and nothing
\* unmaps it. A staging buffer is new, and so is its mapping.
MappedBy(r, o) ==
    IF r.op = "upload_buffer" /\ r.buffer.visible /\ Len(o.log) > 1
    THEN { r.buffer.id }
    ELSE { }

\* The effect of the upload call r with outcome o.
Uploaded(r, o) ==
    /\ Install(o.s)
    /\ req' = r
    /\ mem' = o.mem
    /\ devlog' = o.log
    /\ ret' = Ret(r.op, o.kind, o.err, o.staging, 0)
    /\ batch' = batch \o o.cmd
    /\ mapped' = mapped \cup MappedBy(r, o)
    /\ UNCHANGED << debug_assertions, hist, peak >>

UploadBuffer(env, buffer, offset, data) ==
    /\ CanRecord
    /\ \E o \in upload_buffer(Self, env, buffer, offset, data) :
          Uploaded([ op |-> "upload_buffer", alloc_ok |-> env.alloc_ok,
                     buffer |-> buffer, offset |-> offset, data |-> data ], o)

UploadImage(env, args, data) ==
    /\ CanRecord
    /\ \E o \in upload_image(Self, env, args.image, data, args.layout, args.layers,
                             args.offset, args.extent) :
          Uploaded([ op |-> "upload_image", alloc_ok |-> env.alloc_ok,
                     args |-> args, data |-> data ], o)

Uploads(frame) ==
    LET r == uploads(Self, frame)
    IN /\ Install(r.s)
       /\ ret' = Ret("uploads", "Ok", "", None, r.cb)
       /\ req' = NoRequest
       /\ devlog' = << >>
       /\ batch' = << >>
       /\ subframe' = IF r.cb # 0 THEN [ subframe EXCEPT ![r.cb] = frame ] ELSE subframe
       /\ lastFrame' = Follow(lastFrame, frame)
       /\ peak' = IF Len(r.s.used) > peak THEN Len(r.s.used) ELSE peak
       /\ UNCHANGED << debug_assertions, mem, lastWater, mapped >>

Clear(ongoing) ==
    LET s1 == clear(Self, ongoing)
    IN /\ Install(s1)
       /\ ret' = Ret("clear", "Ok", "", None, 0)
       /\ req' = NoRequest
       /\ devlog' = << >>
       /\ subframe' = [ b \in CBufIds |->
                          IF b \in Range(Ids(s1.used)) THEN subframe[b] ELSE -1 ]
       /\ lastWater' = Follow(lastWater, ongoing)
       /\ UNCHANGED << debug_assertions, mem, batch, lastFrame, peak, mapped >>

\* --------------------------------------------------- the specifications
\* Spec: the command-buffer lifecycle under every order of calls and every
\* frame and watermark, with one upload request that records and one that is
\* out of bounds.
Init == Constructs(1, FALSE)

LifeRequests ==
    { [ buffer |-> DeviceLocalBuffer, offset |-> 0, data |-> << 1 >> ],
      [ buffer |-> DeviceLocalBuffer, offset |-> 1, data |-> << 1, 2 >> ] }

Next ==
    \/ \E r \in LifeRequests : UploadBuffer(AllocFails, r.buffer, r.offset, r.data)
    \/ \E frame \in Frames : Uploads(frame)
    \/ \E ongoing \in Frames : Clear(ongoing)

Spec == Init /\ [][Next]_vars

\* SpecBatch: batches of uploads of every kind (inline update, staged copy,
\* image copy, direct write, failures), submitted and recycled one at a time.
InitBatch == Constructs(1, FALSE)

BatchRequests ==
    LifeRequests \cup
    { [ buffer |-> DeviceLocalBuffer, offset |-> 0, data |-> << 1, 2 >> ],
      [ buffer |-> Buffer("host", 2, TRUE, TRUE, 1, 3), offset |-> 1, data |-> << 2 >> ] }
BatchEnvs == { AllocFails, Env(TRUE, TRUE, 0) }

NextBatch ==
    \/ \E env \in BatchEnvs, r \in BatchRequests :
          UploadBuffer(env, r.buffer, r.offset, r.data)
    \/ \E env \in BatchEnvs :
          UploadImage(env, CHOOSE args \in ImageArgs : args.offset = "origin", << 2 >>)
    \/ (cbuf = 0 \/ used = << >>) /\ Uploads(0)
    \/ Clear(1)

SpecBatch == InitBatch /\ [][NextBatch]_vars

\* SpecHost: every upload_buffer request on a CPU-visible target (offsets over
\* the whole word, every payload), in both build profiles, before and after
\* the requests of Spec; one command at most is recorded.
InitHost == \E dbg \in BOOLEAN : Constructs(1, dbg)

Offsets == { 0, 1, 2, 3, Modulus - 1 }

NextHost ==
    \/ \E buffer \in HostBuffers, offset \in Offsets, data \in Payloads :
          UploadBuffer(AllocFails, buffer, offset, data)
    \/ \E r \in LifeRequests :
          cbuf = 0 /\ UploadBuffer(AllocFails, r.buffer, r.offset, r.data)

SpecHost == InitHost /\ [][NextHost]_vars

\* SpecDevice: every upload_buffer request on a device-local target and every
\* allocator answer, for several thresholds, in both build profiles; one
\* command per batch and one buffer in flight.
InitDevice == \E dbg \in BOOLEAN, th \in { 0, 1, 2 } : Constructs(th, dbg)

NextDevice ==
    \/ \E env \in Envs, offset \in Offsets, data \in Payloads :
          cbuf = 0 /\ UploadBuffer(env, DeviceLocalBuffer, offset, data)
    \/ (cbuf = 0 \/ used = << >>) /\ Uploads(0)
    \/ Clear(1)

SpecDevice == InitDevice /\ [][NextDevice]_vars

\* SpecImage: every upload_image request (every payload, both image offsets,
\* every allocator answer) in both build profiles, alone in its batch or behind
\* the copies of empty payloads, with nothing in flight.
InitImage == \E dbg \in BOOLEAN : Constructs(2, dbg)

\* The batch being recorded holds copies of empty payloads only.
EmptyCopiesOnly ==
    cbuf # 0 => \A i \in DOMAIN cbs[cbuf].cmds : cbs[cbuf].cmds[i].staging.size = 0

NextImage ==
    \/ \E env \in Envs, args \in ImageArgs, data \in Payloads :
          used = << >> /\ EmptyCopiesOnly /\ UploadImage(env, args, data)
    \/ Uploads(0)
    \/ Clear(1)

SpecImage == InitImage /\ [][NextImage]_vars

\* SpecLive: the lifecycle for a caller that keeps its side: one command per
\* batch, frames that never decrease, watermarks that never decrease and go up
\* to one above the last frame, and clear called again and again with a
\* watermark above every frame passed to uploads: whenever such a call would
\* change something, it is eventually made.
InitLive == Constructs(1, FALSE)

Watermarks == 0 .. MaxFrame + 1
LiveRequest ==
    CHOOSE r \in LifeRequests : r.offset + Len(r.data) <= r.buffer.size

NextLive ==
    \/ /\ cbuf = 0
       /\ UploadBuffer(AllocFails, LiveRequest.buffer, LiveRequest.offset, LiveRequest.data)
    \/ \E frame \in Frames : frame >= lastFrame /\ Uploads(frame)
    \/ \E ongoing \in Watermarks : ongoing >= lastWater /\ Clear(ongoing)

SpecLive == InitLive /\ [][NextLive]_vars /\ WF_vars(Clear(MaxFrame + 1))

\* SpecFrame: the lifecycle under every order of calls, frames and watermarks,
\* with batches of one command: an inline update or an image copy.
InitFrame == Constructs(1, FALSE)

FrameImage == CHOOSE args \in ImageArgs : args.offset = "origin"

NextFrame ==
    \/ /\ cbuf = 0
       /\ UploadBuffer(AllocFails, LiveRequest.buffer, LiveRequest.offset, LiveRequest.data)
    \/ cbuf = 0 /\ UploadImage(Env(TRUE, TRUE, 0), FrameImage, << 2 >>)
    \/ \E frame \in Frames : Uploads(frame)
    \/ \E ongoing \in Frames : Clear(ongoing)

SpecFrame == InitFrame /\ [][NextFrame]_vars

\* ================================================================ claims
\* Buffers of the in-flight queue u whose stored tag is below / not below w.
Retired(u, w) == SelectSeq(u, LAMBDA e : e[2] < w)
Kept(u, w) == SelectSeq(u, LAMBDA e : e[2] >= w)
\* The command buffers the pool has handed out.
Allocated == { b \in CBufIds : cbs[b].state # "unallocated" }
\* Every place a command buffer can be, as one sequence.
Places == (IF cbuf = 0 THEN << >> ELSE << cbuf >>) \o free \o Ids(used)

\* C1: with non-decreasing frames and non-decreasing watermarks, a buffer
\* leaves the in-flight queue for the free list only in a clear(w) whose
\* watermark is above the frame the caller gave when the buffer was submitted.
C1_RecycledOnlyAfterItsFrameRetired ==
    [][ \A w \in Frames :
          (Clear(w) /\ OrderedFrames' /\ OrderedWatermarks')
          => \A i \in DOMAIN used :
                used[i][1] \in Range(free') => subframe[used[i][1]] < w ]_vars

\* C2: every command buffer allocated from the pool is in exactly one of
\* current slot, free list and in-flight queue, and in it once.
C2_ExactlyOnePlace ==
    /\ NoDup(Places)
    /\ Range(Places) = Allocated

\* C2 witness: after a clear that recycled one buffer and kept another, a
\* failed upload has left both where they were.
C2_Witness ==
    /\ free # << >>
    /\ used # << >>
    /\ ret.op = "upload_buffer"
    /\ ret.kind = "Err"

\* C3: while the frames passed to uploads are non-decreasing, the tags of the
\* in-flight queue are non-decreasing from front to back.
C3_InFlightOrdered == OrderedFrames => Ordered(used)

\* C3 witness: two buffers in flight, after a clear that rewrote the tag of the
\* front one to its watermark.
C3_Witness ==
    /\ OrderedFrames
    /\ ret.op = "clear"
    /\ Len(used) = 2
    /\ lastWater >= 0
    /\ used[1][2] = lastWater
    /\ subframe[used[1][1]] > lastWater

\* C4: one clear(w) on a queue ordered by tag moves to the free list exactly
\* the buffers whose stored tag is below w, in queue order, keeps the others,
\* and leaves no tag below w in the queue.
C4_ClearRecyclesExactlyBelowWatermark ==
    [][ \A w \in Frames :
          (Clear(w) /\ Ordered(used))
          => /\ free' = free \o Ids(Retired(used, w))
             /\ Ids(used') = Ids(Kept(used, w))
             /\ \A i \in DOMAIN used' : used'[i][2] >= w ]_vars

\* C4 witness: a clear has recycled the front buffer and stopped at the next.
C4_Witness ==
    /\ ret.op = "clear"
    /\ Len(free) = 1
    /\ Len(used) = 1
    /\ OrderedFrames
    /\ cbuf = 0

\* The commands in the current buffer (none when the slot is empty).
Recorded == IF cbuf = 0 THEN << >> ELSE cbs[cbuf].cmds

\* C5: uploads returns a command buffer exactly when an upload has recorded a
\* command since the previous uploads call (direct writes and failed uploads
\* do not count), and leaves the current slot empty.
C5_SomeIffRecordedSinceLastUploads ==
    [][ \A frame \in Frames :
          Uploads(frame)
          => /\ (ret'.cb # 0) <=> (batch # << >>)
             /\ cbuf' = 0 ]_vars

\* C5 witness: uploads has returned None for a batch made of a direct write
\* only, after an earlier batch was submitted.
C5_Witness ==
    /\ ret.op = "uploads"
    /\ ret.cb = 0
    /\ used # << >>
    /\ \E a \in Addrs : mem[a] # 0

\* C6: the buffer uploads returns holds exactly the commands of the successful
\* uploads since the previous uploads call, in the order they were issued.
C6_ReturnedBufferHoldsTheBatch ==
    [][ \A frame \in Frames :
          (Uploads(frame) /\ ret'.cb # 0) => cbs'[ret'.cb].cmds = batch ]_vars

\* C6 witness: the first buffer, recycled after a second one was allocated, is
\* returned again with two different commands.
C6_Witness ==
    /\ ret.op = "uploads"
    /\ ret.cb = 1
    /\ cbs[2].state # "unallocated"
    /\ Len(cbs[1].cmds) = 2
    /\ cbs[1].cmds[1] # cbs[1].cmds[2]

\* C7: an upload_buffer call that fails with OutOfBounds changes nothing: no
\* device call, no command, no command buffer acquired, Upload unchanged.
C7_OutOfBoundsChangesNothing ==
    [][ (ret'.op = "upload_buffer" /\ ret'.err = "OutOfBounds")
        => /\ UNCHANGED << ctx, mem, batch >>
           /\ devlog' = << >>
           /\ ret'.kind = "Err"
           /\ ret'.staging = None ]_vars

\* C7 witness: OutOfBounds with a buffer being recorded and memory written.
C7_Witness ==
    /\ ret.op = "upload_buffer"
    /\ ret.err = "OutOfBounds"
    /\ cbuf # 0
    /\ \E a \in Addrs : mem[a] # 0

\* The last step was upload_buffer(buffer, offset, data), and the sum
\* offset + len(data), taken in the integers, is / is not above the size.
IsUploadBuffer(r) == r.op = "upload_buffer"
OutOfBounds(r) == r.offset + Len(r.data) > r.buffer.size

\* C8: no upload_buffer request whose sum offset + len(payload), taken in the
\* integers, exceeds size(target) is carried out: whatever the sum does in 64
\* bits, the call does not succeed, writes no memory and records no command.
C8_OutOfBoundsOnTheMathematicalSum ==
    [][ (IsUploadBuffer(req') /\ OutOfBounds(req'))
        => /\ ret'.kind # "Ok"
           /\ UNCHANGED << ctx, mem >>
           /\ devlog' = << >> ]_vars

\* What C9 says of one in-bounds upload_buffer call r on a device-local
\* target: at or below the threshold one inline update and no staging; above
\* it a staging buffer of the size of the payload that holds it, and one copy.
C9_Split(r) ==
    IF Len(r.data) <= staging_threshold
    THEN /\ ret'.kind = "Ok"
         /\ ret'.staging = None
         /\ devlog' = << >>
         /\ cbuf' # 0
         /\ cbs'[cbuf'].cmds =
              Append(Recorded, [ op |-> "update_buffer", buffer |-> r.buffer.id,
                                 offset |-> r.offset, data |-> r.data ])
    ELSE /\ ret'.kind = "Ok"
         /\ ret'.staging = Some([ size |-> Len(r.data), data |-> r.data ])
         /\ cbuf' # 0
         /\ cbs'[cbuf'].cmds =
              Append(Recorded, [ op |-> "copy_buffer",
                                 staging |-> [ size |-> Len(r.data), data |-> r.data ],
                                 buffer |-> r.buffer.id,
                                 src |-> 0, dst |-> r.offset, size |-> Len(r.data) ])

\* C9 as stated: the split holds for every in-bounds request on a
\* device-local target.
C9_ThresholdSplit ==
    [][ (IsUploadBuffer(req') /\ ~req'.buffer.visible /\ ~OutOfBounds(req'))
        => C9_Split(req') ]_vars

\* C9 amended: the split holds for every in-bounds request on a device-local
\* target whose staging buffer, when one is needed, the allocator creates;
\* when the allocator fails, the call returns the error and records nothing.
C9_ThresholdSplitUnlessAllocationFails ==
    [][ (IsUploadBuffer(req') /\ ~req'.buffer.visible /\ ~OutOfBounds(req'))
        => IF Len(req'.data) > staging_threshold /\ ~req'.alloc_ok
           THEN ret'.kind = "Err" /\ ret'.staging = None /\ UNCHANGED ctx
           ELSE C9_Split(req') ]_vars

\* C9 witness: a payload one byte above the threshold went through staging.
C9_Witness ==
    /\ ret.op = "upload_buffer"
    /\ ret.staging # None
    /\ ret.staging[1].size = staging_threshold + 1
    /\ cbuf # 0
    /\ cbs[cbuf].cmds[1].op = "copy_buffer"

\* C10: an in-bounds upload_buffer on a CPU-visible target writes the payload
\* at the offset into the block and leaves every other byte; no staging, no
\* command, and the Upload is unchanged.
C10_DirectWrite ==
    [][ (IsUploadBuffer(req') /\ req'.buffer.visible /\ ~OutOfBounds(req'))
        => LET first == req'.buffer.start + req'.offset
           IN /\ ret'.kind = "Ok"
              /\ ret'.staging = None
              /\ \A a \in Addrs :
                   mem'[a] = IF first <= a /\ a < first + Len(req'.data)
                             THEN req'.data[a - first + 1]
                             ELSE mem[a]
              /\ UNCHANGED << ctx, batch >> ]_vars

\* C10 witness: a direct write of a payload longer than the threshold into
\* non-coherent memory, in a block that does not start at 0, next to a current
\* buffer.
C10_Witness ==
    /\ ret.op = "upload_buffer"
    /\ ret.kind = "Ok"
    /\ cbuf # 0
    /\ Len(req.data) > staging_threshold
    /\ req.offset = 0
    /\ Len(devlog) = 4
    /\ devlog[1] = Call("map_memory", 1, 3)
    /\ mem[1] = 2
    /\ mem[2] = 1

\* C11: every successful upload_image call, whatever the size of the payload
\* (empty and within the threshold included), returns a staging buffer of the
\* size of the payload that holds the payload from offset 0, and appends
\* exactly one copy_buffer_to_image command with the given image, layout,
\* layers, offset and extent, buffer offset 0, width 0 and height 0.
C11_ImageAlwaysStaged ==
    [][ (req'.op = "upload_image" /\ ret'.kind = "Ok")
        => LET staged == [ size |-> Len(req'.data), data |-> req'.data ]
               cmd == [ op |-> "copy_buffer_to_image", staging |-> staged,
                        image |-> req'.args.image, layout |-> req'.args.layout,
                        buffer_offset |-> 0, buffer_width |-> 0, buffer_height |-> 0,
                        image_layers |-> req'.args.layers,
                        image_offset |-> req'.args.offset,
                        image_extent |-> req'.args.extent ]
           IN /\ ret'.staging = Some(staged)
              /\ cbuf' # 0
              /\ cbs'[cbuf'].cmds = Append(Recorded, cmd)
              /\ batch' = Append(batch, cmd) ]_vars

\* C11 witness: an empty payload, with a threshold of two bytes, was staged
\* and its copy recorded behind the copy of an earlier image upload at another
\* offset of the image.
C11_Witness ==
    /\ ret.op = "upload_image"
    /\ ret.kind = "Ok"
    /\ req.data = << >>
    /\ staging_threshold = 2
    /\ req.args.offset = "corner"
    /\ cbuf # 0
    /\ Len(cbs[cbuf].cmds) = 2
    /\ cbs[cbuf].cmds[1].image_offset = "origin"
    /\ free = << >>

\* The upload call r reaches create_buffer (an image upload, or an in-bounds
\* upload to a device-local target above the threshold) and the allocator
\* answers with an error.
CreationFails(r) ==
    /\ r.op \in { "upload_buffer", "upload_image" }
    /\ ~r.alloc_ok
    /\ r.op = "upload_buffer"
         => /\ ~r.buffer.visible
            /\ ~OutOfBounds(r)
            /\ Len(r.data) > staging_threshold

\* C12: when the creation of the staging buffer fails, in upload_image or on
\* the device-local path of upload_buffer, the call returns that error and
\* nothing else happens: no device memory call, no byte written, no command,
\* no command buffer acquired, allocated or begun, and the Upload (current
\* slot, free list, in-flight queue, pool) is as before.
C12_FailedStagingChangesNothing ==
    [][ CreationFails(req')
        => /\ ret'.kind = "Err"
           /\ ret'.err = "Failed to create staging buffer"
           /\ ret'.staging = None
           /\ devlog' = << >>
           /\ UNCHANGED << ctx, mem, batch >> ]_vars

\* C12 witness: an image upload failed on its staging buffer with no current
\* buffer while a reset buffer waited in the free list, after a direct write.
C12_Witness ==
    /\ req.op = "upload_image"
    /\ ret.err = "Failed to create staging buffer"
    /\ cbuf = 0
    /\ free # << >>
    /\ pool = 1
    /\ \E a \in Addrs : mem[a] # 0

\* C13: a step allocates a command buffer only when there is no current
\* buffer and the free list is empty, and then exactly one, which becomes the
\* current buffer; an upload that finds a current buffer keeps it, and one that
\* finds none but a free buffer takes the last of the free list. The pool is
\* created at most once, and the number of buffers allocated so far is at most
\* one more than the largest number of buffers ever in flight at once.
C13_AllocatesOnlyWhenNoneToReuse ==
    /\ [][ /\ Allocated' # Allocated
              => /\ cbuf = 0
                 /\ free = << >>
                 /\ \E b \in CBufIds \ Allocated :
                       Allocated' = Allocated \cup { b } /\ cbuf' = b
           /\ (cbuf # 0 /\ ret'.op \in { "upload_buffer", "upload_image" })
              => cbuf' = cbuf
           /\ (cbuf = 0 /\ free # << >> /\ cbuf' # 0)
              => cbuf' = Last(free) /\ free' = Front(free)
           /\ pool' # pool => pool = 0 /\ pool' = 1 ]_vars
    /\ [](pool \in { 0, 1 } /\ Cardinality(Allocated) <= 1 + peak)

\* C13 witness: a second buffer was allocated while the first was in flight
\* and never more than one has been in flight: two allocated, a peak of one.
C13_Witness ==
    /\ ret.op = "upload_buffer"
    /\ Cardinality(Allocated) = 2
    /\ peak = 1
    /\ pool = 1
    /\ cbuf = 2
    /\ Ids(used) = << 1 >>

\* What one step may do to one command buffer, from a to z: nothing; begin on a
\* buffer that is fresh from the pool or reset, followed by the first command;
\* one more command into a recording buffer; finish on a recording buffer; reset
\* on a finished buffer.
ProtocolStep(a, z) ==
    \/ z = a
    \/ /\ a.state \in { "unallocated", "initial" }
       /\ a.cmds = << >>
       /\ z.state = "recording"
       /\ Len(z.cmds) = 1
    \/ /\ a.state = "recording"
       /\ z.state = "recording"
       /\ Len(z.cmds) = Len(a.cmds) + 1
       /\ Front(z.cmds) = a.cmds
    \/ /\ a.state = "recording"
       /\ z.state = "executable"
       /\ z.cmds = a.cmds
    \/ /\ a.state = "executable"
       /\ z.state = "initial"
       /\ z.cmds = << >>

\* C14: every command buffer follows initial -> recording -> finished ->
\* initial (begin only on a fresh or reset buffer, commands only into a
\* recording buffer, finish only on a recording buffer, reset only on a
\* finished one), and in every state the current buffer is recording, the
\* buffers of the free list are reset and hold no command, and the buffers of
\* the in-flight queue are finished.
C14_RecordingProtocol ==
    /\ [][ \A b \in CBufIds : ProtocolStep(cbs[b], cbs'[b]) ]_vars
    /\ [](/\ cbuf # 0 => cbs[cbuf].state = "recording"
          /\ \A i \in DOMAIN free :
                cbs[free[i]].state = "initial" /\ cbs[free[i]].cmds = << >>
          /\ \A i \in DOMAIN used : cbs[used[i][1]].state = "executable")

\* C14 witness: the first buffer is recording again after a whole cycle
\* (recorded, finished, reset, begun from the free list) while the second,
\* finished and holding its command, is in flight.
C14_Witness ==
    /\ cbuf = 1
    /\ cbs[1].state = "recording"
    /\ Len(cbs[1].cmds) = 1
    /\ free = << >>
    /\ Ids(used) = << 2 >>
    /\ cbs[2].state = "executable"
    /\ cbs[2].cmds # << >>
    /\ ret.op = "upload_buffer"
    /\ ret.kind = "Ok"

\* C15: one update_cpu_visible_block call that returns has made, in this
\* order, map_memory, then invalidate_mapped_memory_ranges when the memory is
\* not coherent, then the copy of the payload, then
\* flush_mapped_memory_ranges when the memory is not coherent, and nothing
\* else; the range mapped, invalidated and flushed is start .. end with
\* start = block.start + offset and end = start + len(payload), the sums taken
\* as the code takes them, on machine words.
C15_MapInvalidateCopyFlush ==
    [][ (IsUploadBuffer(req') /\ req'.buffer.visible /\ ret'.kind = "Ok")
        => LET start == (req'.buffer.start + req'.offset) % Modulus
               end == (start + Len(req'.data)) % Modulus
               map == Call("map_memory", start, end)
               copy == Call("copy_from_slice", start, start + Len(req'.data))
           IN devlog' =
                IF req'.buffer.coherent
                THEN << map, copy >>
                ELSE << map, Call("invalidate_mapped_memory_ranges", start, end), copy,
                        Call("flush_mapped_memory_ranges", start, end) >> ]_vars

\* C15 witness: a write at offset 1 into non-coherent memory, in a block that
\* starts at 1, has made its four calls on the range 2 .. 3.
C15_Witness ==
    /\ ret.op = "upload_buffer"
    /\ ret.kind = "Ok"
    /\ ~req.buffer.coherent
    /\ req.buffer.start = 1
    /\ req.offset = 1
    /\ Len(devlog) = 4
    /\ devlog[2] = Call("invalidate_mapped_memory_ranges", 2, 3)
    /\ devlog[4] = Call("flush_mapped_memory_ranges", 2, 3)
    /\ mem[2] # 0

\* C16: the mapping made by a write ends with the call that made it, so no
\* upload calls map_memory on memory that an earlier upload has mapped and
\* that is mapped still.
C16_NeverMapsMappedMemory ==
    [][ (IsUploadBuffer(req') /\ req'.buffer.visible /\ devlog' # << >>)
        => /\ req'.buffer.id \notin mapped
           /\ devlog'[1].call = "map_memory" ]_vars

\* C17: the debug assertion of update_cpu_visible_block never fails at a call
\* this module makes: no call panics on it, and in a build that has the
\* assertion every write that upload_buffer lets through ends inside the block
\* of the target, block.start + offset + len(payload) <= block.end.
C17_DebugAssertionHolds ==
    [][ /\ ret'.err # "Checked in Upload::upload method"
        /\ (debug_assertions /\ IsUploadBuffer(req') /\ req'.buffer.visible
              /\ devlog' # << >>)
           => req'.buffer.start + req'.offset + Len(req'.data) <= req'.buffer.end ]_vars

\* C17 witness: in a build with the assertion, a write that ends exactly at the
\* end of the buffer and of its block has gone through.
C17_Witness ==
    /\ debug_assertions
    /\ ret.op = "upload_buffer"
    /\ ret.kind = "Ok"
    /\ req.buffer.visible
    /\ req.offset = 1
    /\ req.offset + Len(req.data) = req.buffer.size
    /\ req.buffer.start + req.buffer.size = req.buffer.end
    /\ devlog # << >>
    /\ devlog[1].end = req.buffer.end

\* C18: clear is idempotent: after one clear(w), a second clear(w) with the
\* same watermark changes nothing in the Upload (free list and its order,
\* in-flight entries and tags, current buffer, command buffers): it recycles
\* nothing.
C18_ClearIdempotent ==
    [][ \A w \in Frames : Clear(w) => clear(Self', w) = Self' ]_vars

\* C18 witness: a clear has recycled one buffer and put the other back
\* tagged with its watermark, which is below the frame of that buffer.
C18_Witness ==
    /\ ret.op = "clear"
    /\ Len(free) = 1
    /\ Len(used) = 1
    /\ used[1][2] < subframe[used[1][1]]
    /\ used[1][2] > 0

\* C19: for a caller that keeps calling clear with watermarks that end up
\* above every frame passed to uploads, every command buffer in the in-flight
\* queue eventually is in the free list, and if from some point on uploads is
\* not called any more, the in-flight queue is eventually empty for good.
C19_InFlightEventuallyRecycled ==
    /\ \A b \in CBufIds : (b \in Range(Ids(used))) ~> (b \in Range(free))
    /\ <>[][ret'.op # "uploads"]_vars => <>[](used = << >>)

\* C19 witness: two buffers were in flight at once, the last under the highest
\* frame, and a clear above every frame has put both in the free list.
C19_Witness ==
    /\ ret.op = "clear"
    /\ lastFrame = MaxFrame
    /\ lastWater = MaxFrame + 1
    /\ peak = 2
    /\ used = << >>
    /\ Len(free) = 2

\* The command buffers of the in-flight entries u are as they were.
SameBuffers(u) == \A i \in DOMAIN u : cbs'[u[i][1]] = cbs[u[i][1]]

\* C20: each operation changes only its own part of the state. clear leaves
\* the current buffer and its commands, and every in-flight entry behind the
\* first one it does not retire; uploads leaves the free list and the entries
\* already in flight, and with no current buffer leaves everything; upload_buffer
\* and upload_image leave the in-flight queue.
C20_FrameEffects ==
    [][ /\ \A w \in Frames :
             Clear(w)
             => /\ cbuf' = cbuf
                /\ cbuf # 0 => cbs'[cbuf] = cbs[cbuf]
                /\ used' # << >>
                   => /\ Tail(used') = SubSeq(used, Len(used) - Len(used') + 2, Len(used))
                      /\ SameBuffers(Tail(used'))
        /\ \A frame \in Frames :
             Uploads(frame)
             => /\ free' = free
                /\ SubSeq(used', 1, Len(used)) = used
                /\ SameBuffers(used)
                /\ cbuf = 0 => UNCHANGED << ctx, mem >>
        /\ ret'.op \in { "upload_buffer", "upload_image" }
           => used' = used /\ SameBuffers(used) ]_vars

\* C20 witness: a clear has put the front entry back under its watermark and
\* left the entry behind it, an image copy, with its frame.
C20_Witness ==
    /\ ret.op = "clear"
    /\ Len(used) = 2
    /\ used[1][2] < subframe[used[1][1]]
    /\ used[2][2] = subframe[used[2][1]]
    /\ cbs[used[2][1]].cmds[1].op = "copy_buffer_to_image"

====
